---- MODULE Spec2Model ----
(***************************************************************************)
(* Slide2Patch: the KFB -> SVS conversion driver (1_kfb2svs_converter.py)  *)
(* and the blue-ROI extractor in its single-image (2_roi_extractor.py) and *)
(* folder (2_roi_extractor_floder.py) variants.                            *)
(*                                                                         *)
(* Scope of the model.  The vendor converter and the whole-slide image     *)
(* library are external: a converter process is a process that terminates  *)
(* with some exit status, an image read is a read that completes.  Text is *)
(* a sequence of one-character strings, so that lower(), endswith(),       *)
(* replace() and splitext() are computed character by character.  Colour   *)
(* values are signed 32-bit integers (the data model's ARGB int32).        *)
(***************************************************************************)
EXTENDS Integers, Sequences, FiniteSets, TLC

VARIABLES
    \* ---- pure-function harness (is_blue, adjust_roi) ----
    argb,        \* the channel bytes the colour under test is packed from
    color_int,   \* is_blue's argument
    blue_out,    \* "uncalled", or is_blue's result as "True" / "False"
    roi_in,      \* adjust_roi's argument
    roi_out,     \* [called |-> FALSE], or adjust_roi's outcome
    \* ---- ROI extractor (single-image main and process_folder) ----
    pc,          \* position in main / process_folder
    jsonData,    \* the annotation files that exist: path |-> annotation list
    listing,     \* folder mode: os.listdir(svs_folder)
    fi,          \* folder mode: index of the current file in listing
    base_name,   \* base name the output files are named after
    blue_rois,   \* find_blue_rois' result for the current image
    idx,         \* enumerate(blue_rois, start=1)
    written,     \* every save_region so far, in order: [path, image]
    slides,      \* number of OpenSlide handles that are open
    jsonOpen,    \* number of annotation files that are open
    \* ---- conversion driver ----
    cpc,         \* position in the driver's main
    level,       \* the resolution level
    exe_exists,  \* os.path.exists(exe_path)
    src_exists,  \* os.path.exists(full_path)
    dirFiles,    \* os.listdir(full_path)
    kfb_list,    \* the files selected for conversion
    ci,          \* index of the current element of kfb_list
    running,     \* the converter processes that are running (indices)
    commands,    \* every converter command started, in order
    exits        \* the exit status of every converter that terminated

pureVars == <<argb, color_int, blue_out, roi_in, roi_out>>
roiVars  == <<pc, jsonData, listing, fi, base_name, blue_rois,
              idx, written, slides, jsonOpen>>
convVars == <<cpc, level, exe_exists, src_exists, dirFiles, kfb_list, ci,
              running, commands, exits>>
vars == <<pureVars, roiVars, convVars>>

\* ------------------------------------------------------------------ bounds
MaxCoord  == 2    \* rectangle corners range over -MaxCoord..MaxCoord
MaxExtent == 2    \* signed widths and heights over -MaxExtent..MaxExtent
MaxAnn    == 3    \* single-image mode: annotations in the annotation file
MaxFiles  == 3    \* folder mode: entries of the image folder's listing
MaxKfb    == 3    \* conversion driver: entries of the source folder's listing
LevelSlack == 2   \* levels tried: MinLevel - LevelSlack .. MaxLevel + LevelSlack

\* ----------------------------------------------------------- is_blue
ByteMask == 255

Shr(n, k) == n \div (2 ^ k)          \* Python's >> on int: floor division
AndMask(n) == n % (ByteMask + 1)     \* & 0xff: the low eight bits, 0..255

\* is_blue with the threshold met by blue = 128 (>= where the code has >).
is_blue_ge(c) ==
    LET red   == AndMask(Shr(c, 16))
        green == AndMask(Shr(c, 8))
        blue  == AndMask(c)
    IN  blue > red /\ blue > green /\ blue >= 128

\* The alpha byte is extracted too and not used.
is_blue(c) ==
    LET red   == AndMask(Shr(c, 16))
        green == AndMask(Shr(c, 8))
        blue  == AndMask(c)
    IN  blue > red /\ blue > green /\ blue > 128

\* ---------------------------------------------------------- adjust_roi
\* Python's abs()
Abs(n) == IF n < 0 THEN -n ELSE n

\* adjust_roi as the docstring of the single-image script words the case
\* w < 0, h > 0 ("assume the given coordinates are correct"): x is kept.
adjust_roi_doc(roi) ==
    LET x == roi.x
        y == roi.y
        w == roi.width
        h == roi.height
    IN  IF w > 0 /\ h > 0
          THEN [ok |-> TRUE, x |-> x, y |-> y, width |-> Abs(w), height |-> Abs(h)]
        ELSE IF w < 0 /\ h > 0
          THEN [ok |-> TRUE, x |-> x, y |-> y, width |-> Abs(w), height |-> Abs(h)]
        ELSE IF w > 0 /\ h < 0
          THEN [ok |-> TRUE, x |-> x, y |-> y + h, width |-> Abs(w), height |-> Abs(h)]
        ELSE IF w < 0 /\ h < 0
          THEN [ok |-> TRUE, x |-> x + w, y |-> y + h, width |-> Abs(w), height |-> Abs(h)]
        ELSE [ok |-> FALSE, error |-> "UnboundLocalError"]

\* The if/elif chain binds new_x and new_y in four branches and has no else:
\* with w = 0 or h = 0 neither name is bound and building the result raises
\* UnboundLocalError.
adjust_roi(roi) ==
    LET x == roi.x
        y == roi.y
        w == roi.width
        h == roi.height
    IN  IF w > 0 /\ h > 0
          THEN [ok |-> TRUE, x |-> x, y |-> y, width |-> Abs(w), height |-> Abs(h)]
        ELSE IF w < 0 /\ h > 0
          THEN [ok |-> TRUE, x |-> x + w, y |-> y, width |-> Abs(w), height |-> Abs(h)]
        ELSE IF w > 0 /\ h < 0
          THEN [ok |-> TRUE, x |-> x, y |-> y + h, width |-> Abs(w), height |-> Abs(h)]
        ELSE IF w < 0 /\ h < 0
          THEN [ok |-> TRUE, x |-> x + w, y |-> y + h, width |-> Abs(w), height |-> Abs(h)]
        ELSE [ok |-> FALSE, error |-> "UnboundLocalError"]

\* ------------------------------------------------- idle values of a group
NoRoi == [x |-> 0, y |-> 0, width |-> 1, height |-> 1]
NoArgb == [a |-> 0, r |-> 0, g |-> 0, b |-> 0]

PureIdle ==
    /\ argb = NoArgb
    /\ color_int = 0
    /\ blue_out = "uncalled"
    /\ roi_in = NoRoi
    /\ roi_out = [called |-> FALSE]

\* The rectangle of the documented example.
ExampleRect == [x |-> 100, y |-> 100, width |-> -50, height |-> -40]

RoiIdle ==
    /\ pc = "idle"
    /\ jsonData = <<>>
    /\ listing = <<>>
    /\ fi = 0
    /\ base_name = <<>>
    /\ blue_rois = <<>>
    /\ idx = 0
    /\ written = <<>>
    /\ slides = 0
    /\ jsonOpen = 0

ConvIdle ==
    /\ cpc = "idle"
    /\ level = 0
    /\ exe_exists = FALSE
    /\ src_exists = FALSE
    /\ dirFiles = <<>>
    /\ kfb_list = <<>>
    /\ ci = 0
    /\ running = {}
    /\ commands = <<>>
    /\ exits = <<>>

\* ------------------------------------------- the pure functions, applied
\* Channel bytes around the comparisons' boundaries; blue ranges over every byte.
EdgeBytes == {0, 1, 127, 128, 129, 254, 255}
AlphaBytes == {0, 127, 128, 255}

\* The signed 32-bit integer whose bits 24-31, 16-23, 8-15, 0-7 are a, r, g, b.
PackSigned(c) ==
    (IF c.a >= 128 THEN c.a - 256 ELSE c.a) * (2 ^ 24)
        + c.r * (2 ^ 16) + c.g * (2 ^ 8) + c.b

Rects == [x : -MaxCoord..MaxCoord, y : -MaxCoord..MaxCoord,
          width : -MaxExtent..MaxExtent, height : -MaxExtent..MaxExtent]
            \cup {ExampleRect}

InitColor ==
    /\ argb \in [a : AlphaBytes, r : EdgeBytes, g : EdgeBytes, b : 0..ByteMask]
    /\ color_int = PackSigned(argb)
    /\ blue_out = "uncalled"
    /\ roi_in = NoRoi
    /\ roi_out = [called |-> FALSE]
    /\ RoiIdle
    /\ ConvIdle

Call_is_blue ==
    /\ blue_out = "uncalled"
    /\ blue_out' = IF is_blue(color_int) THEN "True" ELSE "False"
    /\ UNCHANGED <<argb, color_int, roi_in, roi_out, roiVars, convVars>>

SpecColor == InitColor /\ [][Call_is_blue]_vars

InitRoi ==
    /\ argb = NoArgb
    /\ color_int = 0
    /\ blue_out = "uncalled"
    /\ roi_in \in Rects
    /\ roi_out = [called |-> FALSE]
    /\ RoiIdle
    /\ ConvIdle

Call_adjust_roi ==
    /\ ~roi_out.called
    /\ roi_out' = [called |-> TRUE, res |-> adjust_roi(roi_in)]
    /\ UNCHANGED <<argb, color_int, blue_out, roi_in, roiVars, convVars>>

SpecRoi == InitRoi /\ [][Call_adjust_roi]_vars


\* The cells a rectangle with signed extents covers: from the anchor corner
\* towards the sign of each extent.
Lo(p, e) == IF e < 0 THEN p + e ELSE p
Hi(p, e) == IF e < 0 THEN p ELSE p + e
Cells(r) == {c \in (Lo(r.x, r.width)..(Hi(r.x, r.width) - 1))
                  \X (Lo(r.y, r.height)..(Hi(r.y, r.height) - 1)) : TRUE}

C2_NeverError ==
    roi_out.called =>
        /\ roi_out.res.ok
        /\ roi_out.res.width >= 0
        /\ roi_out.res.height >= 0

\* C3: for every signed 32-bit ARGB value, is_blue is true exactly when
\* blue > red, blue > green and blue > 128, the channels being bits 16-23,
\* 8-15 and 0-7 (so blue = 128 gives false, blue = 129 over lower red and
\* green gives true), whatever the alpha byte and the sign of the value.
C3_IsBlueIff ==
    blue_out # "uncalled" =>
        ((blue_out = "True") <=>
            (argb.b > argb.r /\ argb.b > argb.g /\ argb.b > 128))

\* A negative colour value with blue = 129 over lower red and green is blue.
C3_Witness ==
    /\ blue_out = "True"
    /\ color_int < 0
    /\ argb.b = 129
    /\ argb.r = 128


\* ================================================================= text
Uppers == <<"A","B","C","D","E","F","G","H","I","J","K","L","M",
            "N","O","P","Q","R","S","T","U","V","W","X","Y","Z">>
Lowers == <<"a","b","c","d","e","f","g","h","i","j","k","l","m",
            "n","o","p","q","r","s","t","u","v","w","x","y","z">>

LowerChar(c) ==
    IF \E i \in DOMAIN Uppers : Uppers[i] = c
      THEN Lowers[CHOOSE i \in DOMAIN Uppers : Uppers[i] = c]
      ELSE c

\* str.lower()
Lower(s) == [i \in 1..Len(s) |-> LowerChar(s[i])]

\* str.endswith(suffix)
EndsWith(s, suffix) ==
    /\ Len(s) >= Len(suffix)
    /\ SubSeq(s, Len(s) - Len(suffix) + 1, Len(s)) = suffix

\* os.path.splitext(p)[0] of a name without directory separators: cut at the
\* last dot, unless only dots come before it.
SplitextStem(p) ==
    LET dots == {i \in 1..Len(p) : p[i] = "."}
    IN  IF dots = {} THEN p
        ELSE LET dotIndex == CHOOSE i \in dots : \A j \in dots : j <= i
             IN  IF \E j \in 1..(dotIndex - 1) : p[j] # "."
                   THEN SubSeq(p, 1, dotIndex - 1)
                   ELSE p

\* f"{idx}": the decimal digits of a non-negative integer
Digits == <<"0","1","2","3","4","5","6","7","8","9">>
RECURSIVE DecStr(_)
DecStr(n) ==
    IF n < 10 THEN <<Digits[n + 1]>>
    ELSE DecStr(n \div 10) \o <<Digits[(n % 10) + 1]>>

DotSvs == <<".","s","v","s">>
DotPng == <<".","p","n","g">>
DashRoi == <<"-","r","o","i">>
UnderKfb == <<"_","k","f","b">>

\* ======================================================== ROI extractor
\* Colours of the annotations: opaque blue 0xFF0000FF, opaque red 0xFFFF0000,
\* and 0xFF000080, whose blue byte is exactly 128.
BlueInt == PackSigned([a |-> 255, r |-> 0, g |-> 0, b |-> 255])
RedInt  == PackSigned([a |-> 255, r |-> 255, g |-> 0, b |-> 0])
DimInt  == PackSigned([a |-> 255, r |-> 0, g |-> 0, b |-> 128])

\* find_blue_rois: the regions of the annotations whose colour is blue, in
\* annotation order (int() of an integer coordinate is that integer).
find_blue_rois(annotations) ==
    LET blue == SelectSeq(annotations, LAMBDA item : is_blue(item.color))
    IN  [i \in 1..Len(blue) |-> blue[i].region]

\* f"{base_name}-roi{idx}.png" under out_path/png and the .svs sibling
PngFile(base, k) == [dir |-> "png", name |-> base \o DashRoi \o DecStr(k) \o DotPng]
SvsFile(base, k) == [dir |-> "svs", name |-> base \o DashRoi \o DecStr(k) \o DotSvs]

\* slide.read_region((x, y), level, (width, height)).convert("RGB"): the
\* pixels of that window of that image.
ReadRegion(svs_path, a) ==
    [src |-> svs_path, x |-> a.x, y |-> a.y, width |-> a.width, height |-> a.height]

\* One pass of the body of the loop over blue_rois, entered with the slide of
\* crop_region open (pc = "cropping"): adjust_roi raises, and the exception
\* leaves main with the slide still referenced by the traceback's frame; or
\* the region is read and crop_region returns without closing the slide, whose
\* handle then lives until the runtime finalizes the unreferenced object
\* (finalized: whether that has happened when crop_region has returned); the
\* crop is then saved twice.
LoopBody(svs_path, nextPc) ==
    LET roi == blue_rois[idx]
        adjusted_roi == adjust_roi(roi)
    IN  IF ~adjusted_roi.ok
          THEN /\ pc' = "crashed"
               /\ UNCHANGED <<written, slides, idx>>
          ELSE \E finalized \in BOOLEAN :
               LET cropped_image == ReadRegion(svs_path, adjusted_roi)
               IN  /\ slides' = IF finalized THEN slides - 1 ELSE slides
                   /\ written' = written \o
                        << [path |-> PngFile(base_name, idx), image |-> cropped_image],
                           [path |-> SvsFile(base_name, idx), image |-> cropped_image] >>
                   /\ idx' = idx + 1
                   /\ pc' = nextPc

\* ---------------------------------------------- single-image mode (main)
SvsPath == <<"1",".","s","v","s">>
JsonPath == <<"1",".","j","s","o","n">>

Regions == {[x |-> 1, y |-> 1, width |-> 2, height |-> 1],
            [x |-> 2, y |-> 2, width |-> -1, height |-> -2],
            [x |-> 0, y |-> 1, width |-> 0, height |-> 2]}
Annotations == [color : {BlueInt, RedInt, DimInt}, region : Regions]

RECURSIVE SeqsUpTo(_, _)
SeqsUpTo(S, n) ==
    IF n = 0 THEN {<<>>}
    ELSE LET shorter == SeqsUpTo(S, n - 1)
         IN  shorter \cup {Append(q, e) : q \in shorter, e \in S}

InitSingle ==
    /\ PureIdle
    /\ ConvIdle
    /\ pc = "start"
    /\ jsonData \in [{JsonPath} -> SeqsUpTo(Annotations, MaxAnn)]
    /\ listing = <<>>
    /\ fi = 0
    /\ base_name = <<>>
    /\ blue_rois = <<>>
    /\ idx = 0
    /\ written = <<>>
    /\ slides = 0
    /\ jsonOpen = 0

\* main, up to load_annotations' open(): the output directories are made, the
\* base name is the image's name without its extension, the file is opened.
M_Open ==
    /\ pc = "start"
    /\ base_name' = SplitextStem(SvsPath)
    /\ jsonOpen' = jsonOpen + 1
    /\ pc' = "loading"
    /\ UNCHANGED <<jsonData, listing, fi, blue_rois, idx, written, slides,
                   pureVars, convVars>>

\* json.load inside the with block, which closes the file; find_blue_rois;
\* "if not blue_rois: return".
M_Load ==
    /\ pc = "loading"
    /\ jsonOpen' = jsonOpen - 1
    /\ blue_rois' = find_blue_rois(jsonData[JsonPath])
    /\ idx' = 1
    /\ pc' = IF blue_rois' = <<>> THEN "done" ELSE "loop"
    /\ UNCHANGED <<jsonData, listing, fi, base_name, written, slides,
                   pureVars, convVars>>

\* crop_region's first statement: the slide is opened.
M_OpenSlide ==
    /\ pc = "loop"
    /\ idx <= Len(blue_rois)
    /\ slides' = slides + 1
    /\ pc' = "cropping"
    /\ UNCHANGED <<jsonData, listing, fi, base_name, blue_rois, idx, written,
                   jsonOpen, pureVars, convVars>>

M_Crop ==
    /\ pc = "cropping"
    /\ LoopBody(SvsPath, "loop")
    /\ UNCHANGED <<jsonData, listing, fi, base_name, blue_rois, jsonOpen,
                   pureVars, convVars>>

\* the loop over blue_rois is exhausted: main returns.
M_Return ==
    /\ pc = "loop"
    /\ idx > Len(blue_rois)
    /\ pc' = "done"
    /\ UNCHANGED <<jsonData, listing, fi, base_name, blue_rois, idx, written,
                   slides, jsonOpen, pureVars, convVars>>

NextSingle == M_Open \/ M_Load \/ M_OpenSlide \/ M_Crop \/ M_Return

SpecSingle == InitSingle /\ [][NextSingle]_vars


\* The annotations of the single annotation file that are blue, in order.
BlueOf(annotations) == SelectSeq(annotations, LAMBDA item : is_blue(item.color))

\* C4: in single-image mode, for every annotation list, the run ends normally
\* having written exactly one pair <basename>-roi<k>.png / .svs per blue
\* annotation, k = 1..n in annotation order over the blue annotations only,
\* and nothing else (so nothing at all when no annotation is blue).
C4_OnePairPerBlue ==
    pc \in {"done", "crashed"} =>
        LET blue == BlueOf(jsonData[JsonPath])
        IN  /\ pc = "done"
            /\ Len(written) = 2 * Len(blue)
            /\ \A k \in 1..Len(blue) :
                 /\ written[2 * k - 1].path = PngFile(<<"1">>, k)
                 /\ written[2 * k].path = SvsFile(<<"1">>, k)
                 /\ written[2 * k - 1].image = written[2 * k].image
                 /\ Cells(written[2 * k].image) = Cells(blue[k].region)

\* C8: every file handle opened for a job is released when the job completes
\* or fails: outside load_annotations no annotation file is open, and once a
\* crop_region call has finished, normally or with an error, no image handle
\* is open.
C8_HandlesReleased ==
    /\ pc # "loading" => jsonOpen = 0
    /\ pc # "cropping" => slides = 0


\* ------------------------------------------- folder mode (process_folder)
\* Names the image folder may hold: two that differ only in the case of a
\* letter of the stem, one with an upper-case extension, one that is no image.
FolderNames == {<<"S","a",".","s","v","s">>, <<"s","a",".","s","v","s">>,
                <<"s","b",".","S","V","S">>, <<"n",".","t","x","t">>}

\* Injective sequences over S of length at most n: a directory listing.
ListingsUpTo(S, n) ==
    {q \in SeqsUpTo(S, n) : \A i, j \in DOMAIN q : i # j => q[i] # q[j]}

\* json_folder/<base_name>_kfb/Annotations/1.json, named by its folder
JsonFile(base) == base \o UnderKfb

\* base_name of a listed file: splitext(filename)[0].lower()
BaseName(filename) == Lower(SplitextStem(filename))

\* filename.lower().endswith('.svs')
IsSvs(filename) == EndsWith(Lower(filename), DotSvs)

R1 == [x |-> 1, y |-> 1, width |-> 2, height |-> 1]
R2 == [x |-> 2, y |-> 2, width |-> -1, height |-> -2]
R0 == [x |-> 0, y |-> 1, width |-> 0, height |-> 2]
AnnLists == { <<>>,
              <<[color |-> BlueInt, region |-> R1]>>,
              <<[color |-> RedInt, region |-> R1], [color |-> BlueInt, region |-> R2]>>,
              <<[color |-> BlueInt, region |-> R0]>>,
              <<[color |-> BlueInt, region |-> R1], [color |-> BlueInt, region |-> R2]>> }

JsonFolders == {JsonFile(<<"s","a">>), JsonFile(<<"s","b">>)}

InitFolder ==
    /\ PureIdle
    /\ ConvIdle
    /\ pc = "scan"
    /\ \E present \in SUBSET JsonFolders : jsonData \in [present -> AnnLists]
    /\ listing \in ListingsUpTo(FolderNames, MaxFiles)
    /\ fi = 0
    /\ base_name = <<>>
    /\ blue_rois = <<>>
    /\ idx = 0
    /\ written = <<>>
    /\ slides = 0
    /\ jsonOpen = 0

\* the listed file is no .svs file: the loop goes on to the next one.
F_NotSvs ==
    /\ pc = "scan"
    /\ fi < Len(listing)
    /\ ~IsSvs(listing[fi + 1])
    /\ fi' = fi + 1
    /\ UNCHANGED <<pc, jsonData, listing, base_name, blue_rois, idx, written,
                   slides, jsonOpen, pureVars, convVars>>

\* "if not os.path.exists(json_file): print(...); continue"
F_NoJson ==
    /\ pc = "scan"
    /\ fi < Len(listing)
    /\ IsSvs(listing[fi + 1])
    /\ JsonFile(BaseName(listing[fi + 1])) \notin DOMAIN jsonData
    /\ base_name' = BaseName(listing[fi + 1])
    /\ fi' = fi + 1
    /\ UNCHANGED <<pc, jsonData, listing, blue_rois, idx, written,
                   slides, jsonOpen, pureVars, convVars>>

\* the annotation file exists: load_annotations opens it.
F_Open ==
    /\ pc = "scan"
    /\ fi < Len(listing)
    /\ IsSvs(listing[fi + 1])
    /\ JsonFile(BaseName(listing[fi + 1])) \in DOMAIN jsonData
    /\ base_name' = BaseName(listing[fi + 1])
    /\ jsonOpen' = jsonOpen + 1
    /\ pc' = "loading"
    /\ UNCHANGED <<jsonData, listing, fi, blue_rois, idx, written, slides,
                   pureVars, convVars>>

\* json.load inside the with block, which closes the file; find_blue_rois;
\* "if not blue_rois: print(...); continue".
F_Load ==
    /\ pc = "loading"
    /\ jsonOpen' = jsonOpen - 1
    /\ blue_rois' = find_blue_rois(jsonData[JsonFile(base_name)])
    /\ idx' = 1
    /\ IF blue_rois' = <<>>
         THEN pc' = "scan" /\ fi' = fi + 1
         ELSE pc' = "loop" /\ fi' = fi
    /\ UNCHANGED <<jsonData, listing, base_name, written, slides,
                   pureVars, convVars>>

\* crop_region's first statement: the slide is opened.
F_OpenSlide ==
    /\ pc = "loop"
    /\ idx <= Len(blue_rois)
    /\ slides' = slides + 1
    /\ pc' = "cropping"
    /\ UNCHANGED <<jsonData, listing, fi, base_name, blue_rois, idx, written,
                   jsonOpen, pureVars, convVars>>

F_Crop ==
    /\ pc = "cropping"
    /\ LoopBody(listing[fi + 1], "loop")
    /\ UNCHANGED <<jsonData, listing, fi, base_name, blue_rois, jsonOpen,
                   pureVars, convVars>>

\* the loop over blue_rois is exhausted: on to the next listed file.
F_NextFile ==
    /\ pc = "loop"
    /\ idx > Len(blue_rois)
    /\ fi' = fi + 1
    /\ pc' = "scan"
    /\ UNCHANGED <<jsonData, listing, base_name, blue_rois, idx, written,
                   slides, jsonOpen, pureVars, convVars>>

\* the listing is exhausted: process_folder returns.
F_Return ==
    /\ pc = "scan"
    /\ fi = Len(listing)
    /\ pc' = "done"
    /\ UNCHANGED <<jsonData, listing, fi, base_name, blue_rois, idx, written,
                   slides, jsonOpen, pureVars, convVars>>

NextFolder ==
    \/ F_NotSvs \/ F_NoJson \/ F_Open \/ F_Load
    \/ F_OpenSlide \/ F_Crop \/ F_NextFile \/ F_Return

SpecFolder == InitFolder /\ [][NextFolder]_vars

\* The saves of crops of one listed image.
WritesOf(filename) == {k \in DOMAIN written : written[k].image.src = filename}

HasJson(filename) == JsonFile(Lower(SplitextStem(filename))) \in DOMAIN jsonData

\* C5: in folder mode, when the run has ended, an image the loop came to whose
\* annotation file <lowercase stem>_kfb/Annotations/1.json is absent has
\* produced no output file, and every image listed after it that has an
\* annotation file has been processed: each of its blue ROIs was extracted and
\* written (as a .png and as a .svs).
C5_MissingAnnotationSkipped ==
    pc \in {"done", "crashed"} =>
        \A i \in 1..fi :
            (IsSvs(listing[i]) /\ ~HasJson(listing[i])) =>
                /\ WritesOf(listing[i]) = {}
                /\ \A j \in DOMAIN listing :
                     (j > i /\ IsSvs(listing[j]) /\ HasJson(listing[j])) =>
                         Cardinality(WritesOf(listing[j])) =
                             2 * Len(BlueOf(jsonData[JsonFile(Lower(SplitextStem(listing[j])))]))

\* C9: in folder mode no output path is written more than once, so distinct
\* (image file, blue-ROI index) pairs go to distinct output files and no crop
\* of one image overwrites a crop of another, also when two image file names
\* differ only in letter case.
C9_DistinctOutputPaths ==
    \A m, n \in DOMAIN written :
        m # n => written[m].path # written[n].path


\* ==================================================== conversion driver
MinLevel == 2
MaxLevel == 9

DotKfb == <<".","k","f","b">>

\* str.replace(old, new): every non-overlapping occurrence of old, found from
\* the left, becomes new; the comparison is case-sensitive.
RECURSIVE Replace(_, _, _)
Replace(s, old, new) ==
    IF Len(s) < Len(old) THEN s
    ELSE IF SubSeq(s, 1, Len(old)) = old
      THEN new \o Replace(SubSeq(s, Len(old) + 1, Len(s)), old, new)
      ELSE <<Head(s)>> \o Replace(Tail(s), old, new)

\* The range as the error message words it: "2 < [level] <= 9".
LevelOutOfRange_strict(l) == l <= MinLevel \/ l > MaxLevel

\* "int(level) < 2 or int(level) > 9"
LevelOutOfRange(l) == l < MinLevel \/ l > MaxLevel

\* [f for f in os.listdir(full_path) if f.lower().endswith('.kfb')]
KfbList(files) == SelectSeq(files, LAMBDA f : EndsWith(Lower(f), DotKfb))

\* the command line of one conversion: exe, source path, destination path, level
Command(elem, lvl) ==
    [src |-> [dir |-> "kfb", name |-> elem],
     dst |-> [dir |-> "svs", name |-> Replace(elem, DotKfb, DotSvs)],
     level |-> lvl]

ConvNames == {<<"a",".","k","f","b">>, <<"b",".","K","F","B">>,
              <<"c",".","k","f","b",".","k","f","b">>, <<"n",".","t","x","t">>}

InitConv ==
    /\ PureIdle
    /\ RoiIdle
    /\ cpc = "checkExe"
    /\ level \in (MinLevel - LevelSlack)..(MaxLevel + LevelSlack)
    /\ exe_exists \in BOOLEAN
    /\ src_exists \in BOOLEAN
    /\ dirFiles \in ListingsUpTo(ConvNames, MaxKfb)
    /\ kfb_list = <<>>
    /\ ci = 0
    /\ running = {}
    /\ commands = <<>>
    /\ exits = <<>>

\* "if not os.path.exists(exe_path): raise FileNotFoundError"
C_CheckExe ==
    /\ cpc = "checkExe"
    /\ cpc' = IF exe_exists THEN "checkLevel" ELSE "error_exe"
    /\ UNCHANGED <<level, exe_exists, src_exists, dirFiles, kfb_list, ci,
                   running, commands, exits, pureVars, roiVars>>

\* "if int(level) < 2 or int(level) > 9: raise AttributeError"
C_CheckLevel ==
    /\ cpc = "checkLevel"
    /\ cpc' = IF LevelOutOfRange(level) THEN "error_level" ELSE "checkSrc"
    /\ UNCHANGED <<level, exe_exists, src_exists, dirFiles, kfb_list, ci,
                   running, commands, exits, pureVars, roiVars>>

\* The working directory is asked of a shell, the source directory must
\* exist, the destination directory is made, the source directory is listed
\* and the .kfb files are selected.
C_CheckSrc ==
    /\ cpc = "checkSrc"
    /\ IF src_exists
         THEN /\ kfb_list' = KfbList(dirFiles)
              /\ ci' = 1
              /\ cpc' = "loop"
         ELSE /\ cpc' = "error_src"
              /\ UNCHANGED <<kfb_list, ci>>
    /\ UNCHANGED <<level, exe_exists, src_exists, dirFiles,
                   running, commands, exits, pureVars, roiVars>>

\* subprocess.Popen(command, shell=True) for the current element
C_Start ==
    /\ cpc = "loop"
    /\ ci <= Len(kfb_list)
    /\ commands' = Append(commands, Command(kfb_list[ci], level))
    /\ running' = running \cup {Len(commands) + 1}
    /\ cpc' = "wait"
    /\ UNCHANGED <<level, exe_exists, src_exists, dirFiles, kfb_list, ci,
                   exits, pureVars, roiVars>>

\* The loop without p.wait(): the next converter is started while this one runs.
C_Wait_detached ==
    /\ cpc = "wait"
    /\ ci' = ci + 1
    /\ cpc' = "loop"
    /\ UNCHANGED <<level, exe_exists, src_exists, dirFiles, kfb_list,
                   running, commands, exits, pureVars, roiVars>>

\* p.wait(): the converter terminates, with some exit status, which the
\* driver does not look at; the loop goes on to the next element.
C_Wait ==
    /\ cpc = "wait"
    /\ \E status \in {0, 1} :
         exits' = Append(exits, status)
    /\ running' = running \ {Len(commands)}
    /\ ci' = ci + 1
    /\ cpc' = "loop"
    /\ UNCHANGED <<level, exe_exists, src_exists, dirFiles, kfb_list,
                   commands, pureVars, roiVars>>

\* kfb_list is exhausted: main returns.
C_Return ==
    /\ cpc = "loop"
    /\ ci > Len(kfb_list)
    /\ cpc' = "done"
    /\ UNCHANGED <<level, exe_exists, src_exists, dirFiles, kfb_list, ci,
                   running, commands, exits, pureVars, roiVars>>

NextConv ==
    C_CheckExe \/ C_CheckLevel \/ C_CheckSrc \/ C_Start \/ C_Wait \/ C_Return

SpecConv == InitConv /\ [][NextConv]_vars

ConfigErrors == {"error_exe", "error_level", "error_src"}

C7_OneConverterAtATime ==
    /\ Cardinality(running) <= 1
    /\ running \subseteq {Len(commands)}
    /\ Len(exits) = Len(commands) - Cardinality(running)
    /\ \A i \in DOMAIN commands : commands[i].src.name = kfb_list[i]
    /\ cpc \in {"loop", "wait"} => ENABLED NextConv
    /\ cpc = "done" =>
         /\ running = {}
         /\ \A i \in DOMAIN dirFiles :
              EndsWith(Lower(dirFiles[i]), DotKfb) =>
                  Cardinality({k \in DOMAIN commands :
                                  commands[k].src.name = dirFiles[i]}) = 1

\* Two files were converted although the first converter failed.
C7_Witness ==
    /\ cpc = "done"
    /\ Len(commands) = 2
    /\ exits = <<1, 0>>

\* C10: for every file selected for conversion, the destination passed to the
\* converter is the source file's name with its final .kfb extension replaced
\* by .svs, in the destination directory.
C10_DestinationIsSvsName ==
    \A i \in DOMAIN commands :
        LET name == commands[i].src.name
        IN  /\ commands[i].dst.dir = "svs"
            /\ commands[i].dst.name = SubSeq(name, 1, Len(name) - 4) \o DotSvs

====
